---- MODULE Spec2Model ----
(***************************************************************************)
(* A model of onefetch's metadata aggregation (Info::new and its probes),  *)
(* its statistics reducers and its dual-stream renderer (Display for      *)
(* Info), from src/src/info.rs and src/src/language.rs.                   *)
(*                                                                         *)
(* Text is modelled by TLA+ strings: one character of a string is one     *)
(* byte and one display cell (the inputs are ASCII and colour escapes are *)
(* left out).  Option<T> is a sequence of length 0 (None) or 1 (Some).    *)
(***************************************************************************)
EXTENDS Integers, Sequences, FiniteSets, TLC

VARIABLES
    \* ---- Info::new (the orchestrator)
    pc,             \* position of Info::new
    world,          \* what the collaborators answer (repository, git, file system)
    probe,          \* per task of the join: "idle", "pending" or "done"
    val,            \* per task: its output ([kind, v])
    locals,         \* Info::new's locals: the language statistics, the reducers' results
    ret,            \* what Info::new returned: NoVal, Ok, Err(kind) or Panicked
    summary,        \* Option<Info>: the record built by Ok(Info {...})
    \* ---- Info::get_pending_changes on its own
    ppc,            \* "call" or "ret"
    status_output,  \* stdout of `git status --porcelain`
    pending_res,    \* the probe's result
    \* ---- Display for Info: the render part of fmt
    rpc,            \* "fmt", "loop", "done" or "panic"
    custom_image,   \* self.custom_image.is_some()
    image_backend,  \* self.image_backend.is_some()
    logo,           \* the logo block: [width, lines]
    info_lines,     \* buf.lines(): the info block
    li,             \* lines the logo iterator has yielded
    ii,             \* lines the info iterator has yielded
    f,              \* the formatter's output so far
    backend_arg,    \* Option of the Vec<String> handed to add_image
    \* ---- language statistics and display bucketing
    lpc,            \* "tokei", "stat", "sorted", "shown" or "err"
    tokei_langs,    \* the collaborator's answer: a sequence of [lang, code]
    stat_vec,       \* Vec<(Language, f64)>: a sequence of [lang, pct]
    shown,          \* the list the Languages field displays
    \* ---- Info::get_authors on its own
    apc,            \* "call", "ret" or "panic"
    history_lines,  \* git_history: the lines of the log, newest first
    top_n,          \* n: how many authors to keep
    counted,        \* the local `authors` before truncate: a sequence of [name, count]
    authors_res,    \* the Vec returned: a sequence of [name, count, pct]
    \* ---- Info::get_project_license on its own
    cpc,            \* "call" or "ret"
    license_dir,    \* what Detector::new, fs::read_dir and analyze answer
    license_res,    \* the probe's result
    \* ---- Display for Info: the info block of fmt
    bpc,            \* the block fmt is at: an index of InfoBlocks, or past the last
    info,           \* &self: the summary, the suppression flags and the style
    buf             \* the local `buf`

orchVars   == <<pc, world, probe, val, locals, ret, summary>>
pendVars   == <<ppc, status_output, pending_res>>
renderVars == <<rpc, custom_image, image_backend, logo, info_lines, li, ii, f, backend_arg>>
langVars   == <<lpc, tokei_langs, stat_vec, shown>>
authVars   == <<apc, history_lines, top_n, counted, authors_res>>
licVars    == <<cpc, license_dir, license_res>>
infoVars   == <<bpc, info, buf>>
vars       == <<orchVars, pendVars, renderVars, langVars, authVars, licVars, infoVars>>

(***************************************************************************)
(* Bounds of the model.                                                    *)
(***************************************************************************)
MaxStatusLines == 3
MaxLogo == 3
MaxInfo == 3
MaxWidth == 2
MaxLangs == 8
MaxPermLangs == 3
MaxHistory == 2
MaxAuthorNb == 2
MaxCommits == 3
MaxEntries == 3
MaxDisabled == 2

(***************************************************************************)
(* Text helpers: the std::str operations the code uses.                    *)
(***************************************************************************)
Max(a, b) == IF a >= b THEN a ELSE b
Min(a, b) == IF a <= b THEN a ELSE b

NL == "\n"
TAB == "\t"

CharAt(s, i) == SubSeq(s, i, i)

RECURSIVE Repeat(_, _)
Repeat(c, n) == IF n <= 0 THEN "" ELSE c \o Repeat(c, n - 1)

\* position of the first occurrence of the character c in s, 0 when there is none
IndexOf(s, c) ==
    LET I == {i \in 1..Len(s) : CharAt(s, i) = c}
    IN  IF I = {} THEN 0 ELSE CHOOSE i \in I : \A j \in I : i <= j

StartsWith(s, p) == Len(s) >= Len(p) /\ SubSeq(s, 1, Len(p)) = p

\* str::split(c): the pieces between the separators (always at least one piece)
RECURSIVE Split(_, _)
Split(s, c) ==
    LET i == IndexOf(s, c)
    IN  IF i = 0 THEN <<s>>
        ELSE <<SubSeq(s, 1, i - 1)>> \o Split(SubSeq(s, i + 1, Len(s)), c)

\* str::lines(): split at "\n"; a final line ending yields no empty last line
RECURSIVE Lines(_)
Lines(s) ==
    IF s = "" THEN <<>>
    ELSE LET i == IndexOf(s, NL)
         IN  IF i = 0 THEN <<s>>
             ELSE <<SubSeq(s, 1, i - 1)>> \o Lines(SubSeq(s, i + 1, Len(s)))

\* str::replace('\n', "")
RECURSIVE RemoveNL(_)
RemoveNL(s) ==
    IF s = "" THEN ""
    ELSE IF Head(s) = NL THEN RemoveNL(Tail(s))
    ELSE Head(s) \o RemoveNL(Tail(s))

IsSpace(c) == c \in {" ", NL, TAB}

\* str::trim_matches(pred): strip every matching character at both ends
RECURSIVE TrimStartBy(_, _)
TrimStartBy(s, cs) ==
    IF s # "" /\ Head(s) \in cs THEN TrimStartBy(Tail(s), cs) ELSE s
RECURSIVE TrimEndBy(_, _)
TrimEndBy(s, cs) ==
    IF s # "" /\ CharAt(s, Len(s)) \in cs
    THEN TrimEndBy(SubSeq(s, 1, Len(s) - 1), cs) ELSE s
TrimBy(s, cs) == TrimEndBy(TrimStartBy(s, cs), cs)
Trim(s) == TrimBy(s, {" ", NL, TAB})

\* the Display of an unsigned integer: its decimal digits
Digit(d) == CharAt("0123456789", d + 1)
RECURSIVE Dec(_)
Dec(n) == IF n < 10 THEN Digit(n) ELSE Dec(n \div 10) \o Digit(n % 10)

\* all sequences over S of length at most n
SeqUpTo(S, n) == UNION {[1..k -> S] : k \in 0..n}

\* every line followed by a line ending
RECURSIVE Unlines(_)
Unlines(ls) == IF ls = <<>> THEN "" ELSE Head(ls) \o NL \o Unlines(Tail(ls))

(***************************************************************************)
(* Results: Ok(v), Err(e), or a panic of the task.                         *)
(***************************************************************************)
Ok(v)    == [kind |-> "Ok", v |-> v]
Err(e)   == [kind |-> "Err", v |-> e]
Panicked == [kind |-> "Panic", v |-> ""]
NoVal    == [kind |-> "None", v |-> ""]

(***************************************************************************)
(* Info::get_pending_changes: the pending-change summarizer.               *)
(***************************************************************************)
\* what the match on prefix.trim() adds to (deleted, added, modified)
PendingClassNoTrim(prefix) ==
    CASE prefix = "D" -> "deleted"
      [] prefix \in {"A", "AM", "??"} -> "added"
      [] prefix \in {"M", "MM", "R"} -> "modified"
      [] OTHER -> "none"

PendingClass(prefix) ==
    LET t == Trim(prefix)
    IN  CASE t = "D" -> "deleted"
          [] t \in {"A", "AM", "??"} -> "added"
          [] t \in {"M", "MM", "R"} -> "modified"
          [] OTHER -> "none"

\* the for loop over the lines: the three counters, or a panic at &line[..2]
RECURSIVE PendingCount(_, _)
PendingCount(lines, acc) ==
    IF lines = <<>> THEN acc
    ELSE IF Len(Head(lines)) < 2 THEN [acc EXCEPT !.panic = TRUE]
    ELSE LET cls == PendingClass(SubSeq(Head(lines), 1, 2))
         IN  PendingCount(Tail(lines),
                [acc EXCEPT !.deleted = @ + (IF cls = "deleted" THEN 1 ELSE 0),
                            !.added = @ + (IF cls = "added" THEN 1 ELSE 0),
                            !.modified = @ + (IF cls = "modified" THEN 1 ELSE 0)])

PendingFormatSwapped(modified, added, deleted) ==
    LET r1 == IF added > 0 THEN Dec(added) \o "+" ELSE ""
        r2 == IF modified > 0 THEN r1 \o " " \o Dec(modified) \o "+-" ELSE r1
        r3 == IF deleted > 0 THEN r2 \o " " \o Dec(deleted) \o "-" ELSE r2
    IN  Trim(r3)

\* the three format! calls and the final trim
PendingFormat(modified, added, deleted) ==
    LET r1 == IF modified > 0 THEN Dec(modified) \o "+-" ELSE ""
        r2 == IF added > 0 THEN r1 \o " " \o Dec(added) \o "+" ELSE r1
        r3 == IF deleted > 0 THEN r2 \o " " \o Dec(deleted) \o "-" ELSE r2
    IN  Trim(r3)

get_pending_changes(output) ==
    IF output = "" THEN Ok("")
    ELSE LET c == PendingCount(Lines(output),
                     [deleted |-> 0, added |-> 0, modified |-> 0, panic |-> FALSE])
         IN  IF c.panic THEN Panicked
             ELSE Ok(PendingFormat(c.modified, c.added, c.deleted))

\* lines `git status --porcelain` prints, and one that is too short for a code
StatusLineSet ==
    {"M  a.txt", "?? b.txt", "D  c.txt", " M d", " D e", "A  f", "AM g",
     "MM h", "R  i -> j", "RM k", "UU l", "X"}

StatusOutputs == {Unlines(ls) : ls \in SeqUpTo(StatusLineSet, MaxStatusLines)}

PendInit ==
    /\ ppc = "call"
    /\ status_output \in StatusOutputs
    /\ pending_res = NoVal

PendIdle ==
    /\ ppc = "off"
    /\ status_output = ""
    /\ pending_res = NoVal

CallGetPendingChanges ==
    /\ ppc = "call"
    /\ pending_res' = get_pending_changes(status_output)
    /\ ppc' = "ret"
    /\ UNCHANGED <<status_output, orchVars, renderVars, langVars, authVars, licVars, infoVars>>


PendNext == CallGetPendingChanges

(***************************************************************************)
(* Display for Info: the render part of fmt (from `let center_pad`).       *)
(***************************************************************************)
center_pad == "   "

\* writeln!(out, "{}", s)
Writeln(out, s) == out \o s \o NL

\* AsciiArt (the logo block): an iterator over lines that all have the
\* declared display width, and width()
LogoLineSet(w) == {Repeat("#", w), Repeat("@", w)}

LogoBlocks ==
    UNION {{[width |-> w, lines |-> ls] : ls \in SeqUpTo(LogoLineSet(w), MaxLogo)} :
           w \in 1..MaxWidth}

AsciiArtNext(art, i) == IF i < Len(art.lines) THEN <<art.lines[i + 1]>> ELSE <<>>

AsciiArtWidth(art) == art.width

\* buf.lines(): the lines of the info block (a line may be empty)
InfoLineSet == {"", "ab"}

LinesNext(ls, i) == IF i < Len(ls) THEN <<ls[i + 1]>> ELSE <<>>

\* the image backend's add_image: an opaque text made from the image and the lines
add_image(lines) == "<image>" \o Unlines(lines)

RenderRowNoGutter(logo_line, info_line, width) ==
    CASE logo_line # <<>> /\ info_line # <<>> -> logo_line[1] \o info_line[1]
      [] logo_line # <<>> /\ info_line = <<>> -> logo_line[1]
      [] logo_line = <<>> /\ info_line # <<>> ->
            Repeat(" ", width) \o center_pad \o info_line[1]

RenderRowGutterAlways(logo_line, info_line, width) ==
    CASE logo_line # <<>> /\ info_line # <<>> ->
            logo_line[1] \o center_pad \o info_line[1]
      [] logo_line # <<>> /\ info_line = <<>> -> logo_line[1] \o center_pad
      [] logo_line = <<>> /\ info_line # <<>> ->
            Repeat(" ", width) \o center_pad \o info_line[1]

RenderRowNoPad(logo_line, info_line, width) ==
    CASE logo_line # <<>> /\ info_line # <<>> ->
            logo_line[1] \o center_pad \o info_line[1]
      [] logo_line # <<>> /\ info_line = <<>> -> logo_line[1]
      [] logo_line = <<>> /\ info_line # <<>> -> center_pad \o info_line[1]

\* the text of one row: the first three arms of the match
RenderRow(logo_line, info_line, width) ==
    CASE logo_line # <<>> /\ info_line # <<>> ->
            logo_line[1] \o center_pad \o info_line[1]
      [] logo_line # <<>> /\ info_line = <<>> -> logo_line[1]
      [] logo_line = <<>> /\ info_line # <<>> ->
            Repeat(" ", width) \o center_pad \o info_line[1]

RenderEndOneNewline(out) == Writeln(out, "")

\* the (None, None) arm: writeln!(f, "\n")
RenderEnd(out) == Writeln(out, NL)

RenderInit ==
    /\ rpc = "fmt"
    /\ custom_image \in BOOLEAN
    /\ image_backend \in BOOLEAN
    /\ logo \in LogoBlocks
    /\ info_lines \in SeqUpTo(InfoLineSet, MaxInfo)
    /\ li = 0
    /\ ii = 0
    /\ f = ""
    /\ backend_arg = <<>>

RenderIdle ==
    /\ rpc = "off"
    /\ custom_image = FALSE
    /\ image_backend = FALSE
    /\ logo = [width |-> 1, lines |-> <<>>]
    /\ info_lines = <<>>
    /\ li = 0
    /\ ii = 0
    /\ f = ""
    /\ backend_arg = <<>>

ImageLinesWithoutGutter(lines) == lines

\* info_lines.map(|s| format!("{}{}", center_pad, s)).collect()
ImageLines(lines) == [k \in 1..Len(lines) |-> center_pad \o lines[k]]

\* custom_image and image_backend are both Some: delegate to the backend
FmtImage ==
    /\ rpc = "fmt"
    /\ custom_image
    /\ image_backend
    /\ LET arg == ImageLines(info_lines)
       IN  /\ backend_arg' = <<arg>>
           /\ f' = Writeln(f, add_image(arg))
    /\ ii' = Len(info_lines)
    /\ rpc' = "done"
    /\ UNCHANGED <<custom_image, image_backend, logo, info_lines, li>>
    /\ UNCHANGED <<orchVars, pendVars, langVars, authVars, licVars, infoVars>>

\* custom_image is Some and image_backend is None: panic!("No image backend found")
FmtNoBackend ==
    /\ rpc = "fmt"
    /\ custom_image
    /\ ~image_backend
    /\ rpc' = "panic"
    /\ UNCHANGED <<custom_image, image_backend, logo, info_lines, li, ii, f, backend_arg>>
    /\ UNCHANGED <<orchVars, pendVars, langVars, authVars, licVars, infoVars>>

\* no image: AsciiArt::new, then the loop
FmtLogo ==
    /\ rpc = "fmt"
    /\ ~custom_image
    /\ rpc' = "loop"
    /\ UNCHANGED <<custom_image, image_backend, logo, info_lines, li, ii, f, backend_arg>>
    /\ UNCHANGED <<orchVars, pendVars, langVars, authVars, licVars, infoVars>>

\* one iteration that writes a row: at least one of the iterators yields a line
LoopRow ==
    /\ rpc = "loop"
    /\ LET logo_line == AsciiArtNext(logo, li)
           info_line == LinesNext(info_lines, ii)
       IN  /\ logo_line # <<>> \/ info_line # <<>>
           /\ f' = Writeln(f, RenderRow(logo_line, info_line, AsciiArtWidth(logo)))
           /\ li' = li + Len(logo_line)
           /\ ii' = ii + Len(info_line)
    /\ UNCHANGED <<rpc, custom_image, image_backend, logo, info_lines, backend_arg>>
    /\ UNCHANGED <<orchVars, pendVars, langVars, authVars, licVars, infoVars>>

\* the iteration in which both iterators yield None
LoopEnd ==
    /\ rpc = "loop"
    /\ AsciiArtNext(logo, li) = <<>>
    /\ LinesNext(info_lines, ii) = <<>>
    /\ f' = RenderEnd(f)
    /\ rpc' = "done"
    /\ UNCHANGED <<custom_image, image_backend, logo, info_lines, li, ii, backend_arg>>
    /\ UNCHANGED <<orchVars, pendVars, langVars, authVars, licVars, infoVars>>

RenderNext == FmtImage \/ FmtNoBackend \/ FmtLogo \/ LoopRow \/ LoopEnd


(***************************************************************************)
(* Language statistics (language.rs) and the display bucketing of the      *)
(* Languages field (fmt).  A percentage is an f64 in the code; the model   *)
(* computes with exact fractions [num, den], so floating-point rounding is *)
(* left out.                                                               *)
(***************************************************************************)
\* Display for Language, in the order of the enum (the collaborator's key order)
LanguageNames ==
    <<"Assembly", "C", "Clojure", "CMake", "CoffeeScript", "C++", "C#", "CSS", "D", "Dart">>

\* code-line counts the collaborator reports for one language
CodeCounts == {0, 1, 2}

Frac(n, d) == [num |-> n, den |-> d]
FracAdd(a, b) ==
    IF a.den = b.den THEN Frac(a.num + b.num, a.den)
    ELSE Frac(a.num * b.den + b.num * a.den, a.den * b.den)
FracEq(a, b) == a.num * b.den = b.num * a.den
FracLt(a, b) == a.num * b.den < b.num * a.den

\* the bijections on 1..n
Perms(n) == {p \in [1..n -> 1..n] : \A i, j \in 1..n : p[i] = p[j] => i = j}

\* HashMap::into_iter visits the entries in an order of its own: every order of
\* a map of at most MaxPermLangs entries, the key order and its reverse of a
\* larger one
HashOrders(n) ==
    IF n <= MaxPermLangs THEN Perms(n)
    ELSE {[i \in 1..n |-> i], [i \in 1..n |-> n + 1 - i]}

RECURSIVE SumCode(_)
SumCode(langs) == IF langs = <<>> THEN 0 ELSE Head(langs).code + SumCode(Tail(langs))

get_languages_stat_unless_empty(languages) ==
    LET sum_language_code == SumCode(languages)
    IN  IF languages = <<>> THEN <<>>
        ELSE <<[k \in 1..Len(languages) |->
                  [lang |-> languages[k].lang,
                   pct |-> Frac(languages[k].code * 100, sum_language_code)]]>>

get_languages_stat_fraction(languages) ==
    LET sum_language_code == SumCode(languages)
    IN  IF sum_language_code = 0 THEN <<>>
        ELSE <<[k \in 1..Len(languages) |->
                  [lang |-> languages[k].lang,
                   pct |-> Frac(languages[k].code, sum_language_code)]]>>

\* Language::get_languages_stat: None (an empty sequence) when no code line was
\* counted, else the percentage of every language, here in key order
get_languages_stat(languages) ==
    LET sum_language_code == SumCode(languages)
    IN  IF sum_language_code = 0 THEN <<>>
        ELSE <<[k \in 1..Len(languages) |->
                  [lang |-> languages[k].lang,
                   pct |-> Frac(languages[k].code * 100, sum_language_code)]]>>

\* the stable sort_by of get_language_stats: descending by percentage
RECURSIVE InsertDesc(_, _)
InsertDesc(x, sorted) ==
    IF sorted = <<>> THEN <<x>>
    ELSE IF FracLt(Head(sorted).pct, x.pct) THEN <<x>> \o sorted
    ELSE <<Head(sorted)>> \o InsertDesc(x, Tail(sorted))

SortDescOmitted(v) == v

RECURSIVE SortDesc(_)
SortDesc(v) ==
    IF v = <<>> THEN <<>>
    ELSE InsertDesc(v[Len(v)], SortDesc(SubSeq(v, 1, Len(v) - 1)))

\* fold(0.0, |acc, x| acc + x.1) over the entries from index `from` on
RECURSIVE FoldPct(_, _, _)
FoldPct(v, from, acc) ==
    IF from > Len(v) THEN acc ELSE FoldPct(v, from + 1, FracAdd(acc, v[from].pct))

DisplayedLanguagesSumAll(languages) ==
    IF Len(languages) > 6
    THEN SubSeq(languages, 1, 6)
            \o <<[lang |-> "Other", pct |-> FoldPct(languages, 1, Frac(0, 1))]>>
    ELSE languages

DisplayedLanguagesKeepSeven(languages) ==
    IF Len(languages) > 7
    THEN SubSeq(languages, 1, 7)
            \o <<[lang |-> "Other", pct |-> FoldPct(languages, 8, Frac(0, 1))]>>
    ELSE languages

\* the list the Languages field prints: the first six and "Other", or all
DisplayedLanguages(languages) ==
    IF Len(languages) > 6
    THEN SubSeq(languages, 1, 6)
            \o <<[lang |-> "Other", pct |-> FoldPct(languages, 7, Frac(0, 1))]>>
    ELSE languages

LangInit ==
    /\ lpc = "tokei"
    /\ tokei_langs \in
          UNION {{[k \in 1..n |-> [lang |-> LanguageNames[k], code |-> c[k]]] :
                     c \in [1..n -> CodeCounts]} : n \in 0..MaxLangs}
    /\ stat_vec = <<>>
    /\ shown = <<>>

LangIdle ==
    /\ lpc = "off"
    /\ tokei_langs = <<>>
    /\ stat_vec = <<>>
    /\ shown = <<>>

\* Language::get_language_stats, no code line counted: Err(SourceCodeNotFound)
GetLanguageStatsErr ==
    /\ lpc = "tokei"
    /\ get_languages_stat(tokei_langs) = <<>>
    /\ lpc' = "err"
    /\ UNCHANGED <<tokei_langs, stat_vec, shown, orchVars, pendVars, renderVars, authVars, licVars, infoVars>>

\* Language::get_language_stats: the map's entries collected and sorted
GetLanguageStatsOk ==
    /\ lpc = "tokei"
    /\ get_languages_stat(tokei_langs) # <<>>
    /\ \E order \in HashOrders(Len(tokei_langs)) :
          LET languages_stat == get_languages_stat(tokei_langs)[1]
              collected == [k \in 1..Len(languages_stat) |-> languages_stat[order[k]]]
          IN  stat_vec' = SortDesc(collected)
    /\ lpc' = "sorted"
    /\ UNCHANGED <<tokei_langs, shown, orchVars, pendVars, renderVars, authVars, licVars, infoVars>>

\* fmt, the Languages field of a summary with more than one language
FmtLanguages ==
    /\ lpc = "sorted"
    /\ Len(stat_vec) > 1
    /\ shown' = DisplayedLanguages(stat_vec)
    /\ lpc' = "shown"
    /\ UNCHANGED <<tokei_langs, stat_vec, orchVars, pendVars, renderVars, authVars, licVars, infoVars>>

\* fmt, the Language field of a summary with one language: no list is shown
FmtLanguage ==
    /\ lpc = "sorted"
    /\ Len(stat_vec) = 1
    /\ lpc' = "single"
    /\ UNCHANGED <<tokei_langs, stat_vec, shown, orchVars, pendVars, renderVars, authVars, licVars, infoVars>>

LangNext == GetLanguageStatsErr \/ GetLanguageStatsOk \/ FmtLanguages \/ FmtLanguage

(***************************************************************************)
(* The probes of Info::new, as functions of what the collaborators answer. *)
(***************************************************************************)
QQ == "??"

\* position of the first occurrence of the text sub in s, 0 when there is none
FindSub(s, sub) ==
    LET I == {i \in 1..(Len(s) - Len(sub) + 1) : SubSeq(s, i, i + Len(sub) - 1) = sub}
    IN  IF I = {} THEN 0 ELSE CHOOSE i \in I : \A j \in I : i <= j

\* Info::get_git_history: the lines of the log
get_git_history(output) == Ok(Lines(output))

\* Info::get_configuration; cfg is what repo.config() and its entries give
get_configuration(cfg) ==
    IF ~cfg.config THEN Err("NoGitData")
    ELSE IF ~cfg.entries THEN Panicked
    ELSE LET url == IF cfg.upstream # <<>> THEN cfg.upstream[1] ELSE cfg.origin
             name_parts == Split(url, "/")
             last_part == name_parts[Len(name_parts)]
             dot_git == FindSub(last_part, ".git")
             repository_name ==
                 IF dot_git > 0 THEN SubSeq(last_part, 1, dot_git - 1) ELSE last_part
         IN  Ok([repository_name |-> repository_name, repository_url |-> url])

\* Info::get_current_commit_info; r is what repo.head() and repo.references() give
get_current_commit_info(r) ==
    IF ~r.head THEN Err("ReferenceInfoError")
    ELSE LET keep == SelectSeq(r.refs, LAMBDA x : x.target = r.oid)
         IN  Ok([oid |-> r.oid,
                 refs |-> [k \in 1..Len(keep) |->
                             IF keep[k].is_tag THEN "tags/" \o keep[k].shorthand
                             ELSE keep[k].shorthand]])

\* Info::get_git_info: the outputs of `git --version` and `git config --get user.name`
get_git_info(version, username) ==
    Ok([git_v |-> RemoveNL(version), git_user |-> RemoveNL(username)])

get_version_no_sentinel(output) == Ok(RemoveNL(output))

\* Info::get_version: the output of `git describe --abbrev=0 --tags`
get_version(output) == IF output = "" THEN Ok(QQ) ELSE Ok(RemoveNL(output))

\* Info::get_packed_size: the output of `git count-objects -vH`, and the stdout
\* and stderr of `git ls-files`
get_packed_size(count_objects, ls_stdout, ls_stderr) ==
    LET lines == Split(count_objects, NL)
        found == SelectSeq(lines, LAMBDA l : StartsWith(l, "size-pack:"))
    IN  IF found # <<>> /\ Len(found[1]) < 11 THEN Panicked
        ELSE LET repo_size ==
                     IF found = <<>> THEN QQ ELSE SubSeq(found[1], 12, Len(found[1]))
                 files_count == Len(Split(ls_stdout, NL)) - 1
             IN  IF ls_stderr = ""
                 THEN Ok(repo_size \o " (" \o Dec(files_count) \o " files)")
                 ELSE Ok(repo_size)

\* Info::get_last_change: the output of `git log -1 --format=%cr`
get_last_change(output) == IF output = "" THEN Ok(QQ) ELSE Ok(RemoveNL(output))

get_creation_date_of_first(git_history) ==
    IF Len(git_history) = 0 THEN Ok(QQ)
    ELSE Ok(Split(git_history[1], TAB)[1])

\* Info::get_creation_date: the time label of the last record of the history
get_creation_date(git_history) ==
    IF Len(git_history) = 0 THEN Ok(QQ)
    ELSE Ok(Split(git_history[Len(git_history)], TAB)[1])

\* Info::get_number_of_commits
get_number_of_commits(git_history) == Dec(Len(git_history))

\* the distinct elements of a sequence, in the order of their first occurrence
RECURSIVE Distinct(_)
Distinct(seq) ==
    IF seq = <<>> THEN <<>>
    ELSE LET init == Distinct(SubSeq(seq, 1, Len(seq) - 1))
             x == seq[Len(seq)]
         IN  IF \E k \in 1..Len(init) : init[k] = x THEN init ELSE Append(init, x)

ReverseOmitted(seq) == seq

Reverse(seq) == [k \in 1..Len(seq) |-> seq[Len(seq) + 1 - k]]

\* the stable sort_by_key of get_authors: ascending by commit count
RECURSIVE InsertAsc(_, _)
InsertAsc(x, sorted) ==
    IF sorted = <<>> THEN <<x>>
    ELSE IF x.count < Head(sorted).count THEN <<x>> \o sorted
    ELSE <<Head(sorted)>> \o InsertAsc(x, Tail(sorted))

RECURSIVE SortAsc(_)
SortAsc(v) ==
    IF v = <<>> THEN <<>>
    ELSE InsertAsc(v[Len(v)], SortAsc(SubSeq(v, 1, Len(v) - 1)))

\* some line of the history has no tab, so no second field
HistoryMalformed(git_history) ==
    \E k \in 1..Len(git_history) : Len(Split(git_history[k], TAB)) < 2

\* the author labels of the history: the second tab-separated field of a line
AuthorLabels(git_history) ==
    [k \in 1..Len(git_history) |-> Split(git_history[k], TAB)[2]]

\* the number of orders a hash map of the history's authors can be visited in
AuthorKeys(git_history) == Distinct(AuthorLabels(git_history))

authors_sorted_counts_once(git_history, order) ==
    LET keys == Distinct(AuthorLabels(git_history))
        entries == [k \in 1..Len(keys) |-> [name |-> keys[order[k]], count |-> 1]]
    IN  Reverse(SortAsc(entries))

\* the local `authors` of get_authors after collect, sort_by_key and reverse:
\* one [name, count] per distinct label, the labels as the log prints them;
\* order is the order the hash map's entries are visited in
authors_sorted(git_history, order) ==
    LET labels == AuthorLabels(git_history)
        keys == Distinct(labels)
        count(a) == Cardinality({k \in 1..Len(labels) : labels[k] = a})
        entries == [k \in 1..Len(keys) |->
                       [name |-> keys[order[k]], count |-> count(keys[order[k]])]]
    IN  Reverse(SortAsc(entries))

get_authors_of_retained(git_history, n, order) ==
    IF HistoryMalformed(git_history) THEN Panicked
    ELSE LET sorted == authors_sorted(git_history, order)
             top == SubSeq(sorted, 1, Min(n, Len(sorted)))
             sum[k \in 0..Len(top)] == IF k = 0 THEN 0 ELSE sum[k - 1] + top[k].count
         IN  Ok([k \in 1..Len(top) |->
                    [name |-> TrimBy(top[k].name, {"'"}),
                     count |-> top[k].count,
                     pct |-> (top[k].count * 100) \div sum[Len(top)]]])

\* Info::get_authors. A line without a tab has no second field: the indexing
\* panics.
get_authors(git_history, n, order) ==
    IF HistoryMalformed(git_history) THEN Panicked
    ELSE LET total_commits == Len(git_history)
             sorted == authors_sorted(git_history, order)
             top == SubSeq(sorted, 1, Min(n, Len(sorted)))
         IN  Ok([k \in 1..Len(top) |->
                    [name |-> TrimBy(top[k].name, {"'"}),
                     count |-> top[k].count,
                     pct |-> (top[k].count * 100) \div total_commits]])

\* ---- Info::get_authors on its own (AuthSpec)
\* lines of `git log --pretty=format:%cr%x09%an`, and one without a tab
CommitLineSet ==
    {"1 day ago\tAnn", "2 days ago\tBob", "3 days ago\t'Bob'", "4 days ago\t''Cy'",
     "oops"}

AuthInit ==
    /\ apc = "call"
    /\ history_lines \in SeqUpTo(CommitLineSet, MaxCommits)
    /\ top_n \in 0..MaxAuthorNb
    /\ counted = <<>>
    /\ authors_res = <<>>

AuthIdle ==
    /\ apc = "off"
    /\ history_lines = <<>>
    /\ top_n = 0
    /\ counted = <<>>
    /\ authors_res = <<>>

\* get_authors returns
CallGetAuthors ==
    /\ apc = "call"
    /\ ~HistoryMalformed(history_lines)
    /\ \E order \in HashOrders(Len(AuthorKeys(history_lines))) :
          /\ counted' = authors_sorted(history_lines, order)
          /\ authors_res' = get_authors(history_lines, top_n, order).v
    /\ apc' = "ret"
    /\ UNCHANGED <<history_lines, top_n, orchVars, pendVars, renderVars, langVars, licVars, infoVars>>

\* get_authors panics on a line without a tab
CallGetAuthorsPanic ==
    /\ apc = "call"
    /\ HistoryMalformed(history_lines)
    /\ get_authors(history_lines, top_n, <<>>).kind = "Panic"
    /\ apc' = "panic"
    /\ UNCHANGED <<history_lines, top_n, counted, authors_res,
                   orchVars, pendVars, renderVars, langVars, licVars, infoVars>>

AuthNext == CallGetAuthors \/ CallGetAuthorsPanic

\* LICENSE_FILES
LICENSE_FILES == <<"LICENSE", "LICENCE", "COPYING">>

is_license_file(file_name) ==
    \E k \in 1..Len(LICENSE_FILES) : StartsWith(file_name, LICENSE_FILES[k])

\* the license identifiers of the model, in the order of String's Ord
LicenseIds == <<"Apache-2.0", "MIT">>
LicenseRank(id) == CHOOSE k \in 1..Len(LicenseIds) : LicenseIds[k] = id

SortWithoutDedup(ids) ==
    SelectSeq(ids, LAMBDA id : id = LicenseIds[1])
        \o SelectSeq(ids, LAMBDA id : id = LicenseIds[2])

\* output.sort(); output.dedup(): the identifiers found, each once, in order
SortDedup(ids) ==
    SelectSeq(LicenseIds, LAMBDA id : \E k \in 1..Len(ids) : ids[k] = id)

RECURSIVE JoinWith(_, _)
JoinWith(parts, sep) ==
    IF parts = <<>> THEN ""
    ELSE IF Len(parts) = 1 THEN parts[1]
    ELSE parts[1] \o sep \o JoinWith(Tail(parts), sep)

\* the filter_map of get_project_license: the classifications of the candidates
RECURSIVE Classified(_)
Classified(entries) ==
    IF entries = <<>> THEN <<>>
    ELSE (IF Head(entries).is_file /\ is_license_file(Head(entries).name)
          THEN Head(entries).license ELSE <<>>) \o Classified(Tail(entries))

get_project_license_recovers(dir) ==
    IF ~dir.detector \/ ~dir.readable THEN Ok(QQ)
    ELSE LET output == JoinWith(SortDedup(Classified(dir.entries)), ", ")
         IN  IF output = "" THEN Ok(QQ) ELSE Ok(output)

\* Info::get_project_license; dir is what Detector::new, fs::read_dir and the
\* classifier give.  The error kind of Detector::new is defined outside these
\* sources; the model calls it "LicenseDetectorError".
get_project_license(dir) ==
    IF ~dir.detector THEN Err("LicenseDetectorError")
    ELSE IF ~dir.readable THEN Err("ReadDirectory")
    ELSE LET output == JoinWith(SortDedup(Classified(dir.entries)), ", ")
         IN  IF output = "" THEN Ok(QQ) ELSE Ok(output)

\* ---- Info::get_project_license on its own (LicSpec)
\* entries of a top-level directory: the name, entry.is_file(), and what the
\* classifier makes of the contents read (<<>> for None)
DirEntrySet ==
    {[name |-> "LICENSE", is_file |-> TRUE, license |-> <<"MIT">>],
     [name |-> "COPYING", is_file |-> TRUE, license |-> <<"MIT">>],
     [name |-> "LICENCE-APACHE", is_file |-> TRUE, license |-> <<"Apache-2.0">>],
     [name |-> "LICENSE.md", is_file |-> TRUE, license |-> <<>>],
     [name |-> "license", is_file |-> TRUE, license |-> <<"MIT">>],
     [name |-> "NOTICE", is_file |-> TRUE, license |-> <<"Apache-2.0">>],
     [name |-> "COPYING.d", is_file |-> FALSE, license |-> <<>>]}

\* read_dir yields the entries of the directory, each once, in an order of its own
DirListings ==
    {es \in SeqUpTo(DirEntrySet, MaxEntries) :
        \A i, j \in 1..Len(es) : es[i] = es[j] => i = j}

LicInit ==
    /\ cpc = "call"
    /\ license_dir \in
          {[detector |-> TRUE, readable |-> TRUE, entries |-> es] : es \in DirListings}
          \cup {[detector |-> FALSE, readable |-> TRUE, entries |-> <<>>],
                [detector |-> TRUE, readable |-> FALSE, entries |-> <<>>]}
    /\ license_res = NoVal

LicIdle ==
    /\ cpc = "off"
    /\ license_dir = [detector |-> TRUE, readable |-> TRUE, entries |-> <<>>]
    /\ license_res = NoVal

\* get_project_license returns
CallGetProjectLicense ==
    /\ cpc = "call"
    /\ license_res' = get_project_license(license_dir)
    /\ cpc' = "ret"
    /\ UNCHANGED <<license_dir, orchVars, pendVars, renderVars, langVars, authVars, infoVars>>

LicNext == CallGetProjectLicense

\* Language::get_dominant_language
get_dominant_language(languages_stat_vec) == Ok(languages_stat_vec[1].lang)

\* get_total_loc
get_total_loc(languages) == SumCode(languages)

(***************************************************************************)
(* Info::new.  The tasks of futures::join! are polled on one thread: the   *)
(* first poll visits them in the order they are written; a task that runs  *)
(* no git command ends in that poll, a task that runs git is pending until *)
(* a later poll finds its commands ended (its commands are one step here). *)
(* A panic inside a task unwinds Info::new.                                *)
(***************************************************************************)
Probes ==
    <<"config", "git_history", "current_commit_info", "git_info", "version",
      "pending", "repo_size", "last_change", "project_license", "dominant_language">>

ProbeSet == {Probes[k] : k \in 1..Len(Probes)}

\* the tasks that never await: they end in the first poll
SyncProbes == {"config", "current_commit_info", "project_license", "dominant_language"}

\* what each task of the join is given: the Repository that Info::new opened
\* (&repo), the path of the working tree (workdir_str), or the language
\* statistics (&languages_stats); all are shared references
TaskBorrows(p) ==
    CASE p \in {"config", "current_commit_info"} -> "repo"
      [] p = "dominant_language" -> "languages_stats"
      [] OTHER -> "workdir_str"

\* ---- what the collaborators can answer
OrchTokei ==
    {<<>>,
     <<[lang |-> "C", code |-> 0]>>,
     <<[lang |-> "C", code |-> 1], [lang |-> "CSS", code |-> 3],
       [lang |-> "D", code |-> 1]>>}

ConfigAnswers ==
    {[config |-> FALSE, entries |-> TRUE, origin |-> "", upstream |-> <<>>],
     [config |-> TRUE, entries |-> FALSE, origin |-> "", upstream |-> <<>>],
     [config |-> TRUE, entries |-> TRUE,
      origin |-> "https://github.com/o2sh/onefetch.git", upstream |-> <<>>]}

HeadAnswers ==
    {[head |-> FALSE, oid |-> "", refs |-> <<>>],
     [head |-> TRUE, oid |-> "a1",
      refs |-> <<[target |-> "a1", shorthand |-> "master", is_tag |-> FALSE],
                 [target |-> "b2", shorthand |-> "old", is_tag |-> FALSE],
                 [target |-> "a1", shorthand |-> "v1.0", is_tag |-> TRUE]>>]}

GitInfoAnswers == {[version |-> "git version 2.28.0\n", username |-> "Ann\n"]}

DescribeOutputs == {"", "v1.0\n"}

OrchStatusOutputs == {"", " M d\n?? b.txt\n", "X\n"}

RepoSizeAnswers ==
    {[count_objects |-> "", ls_stdout |-> "a\nb\n", ls_stderr |-> ""],
     [count_objects |-> "", ls_stdout |-> "", ls_stderr |-> "fatal\n"],
     [count_objects |-> "count: 0\nsize-pack: 1 KiB\n", ls_stdout |-> "a\nb\n",
      ls_stderr |-> ""],
     [count_objects |-> "size-pack:", ls_stdout |-> "", ls_stderr |-> ""]}

LastLogOutputs == {"", "2 days ago\n"}

HistoryLineSet == {"2 days ago\tAnn", "3 weeks ago\t'Bob'", "oops"}

HistoryOutputs == {JoinWith(ls, NL) : ls \in SeqUpTo(HistoryLineSet, MaxHistory)}

LicenseDirs ==
    {[detector |-> FALSE, readable |-> TRUE, entries |-> <<>>],
     [detector |-> TRUE, readable |-> FALSE, entries |-> <<>>],
     [detector |-> TRUE, readable |-> TRUE,
      entries |-> <<[name |-> "README.md", is_file |-> TRUE, license |-> <<>>],
                    [name |-> "LICENSE.txt", is_file |-> TRUE, license |-> <<>>]>>],
     [detector |-> TRUE, readable |-> TRUE,
      entries |-> <<[name |-> "LICENSE", is_file |-> TRUE, license |-> <<"MIT">>],
                    [name |-> "COPYING", is_file |-> TRUE, license |-> <<"MIT">>]>>]}

Answers(p) ==
    CASE p = "config" -> ConfigAnswers
      [] p = "git_history" -> HistoryOutputs
      [] p = "current_commit_info" -> HeadAnswers
      [] p = "git_info" -> GitInfoAnswers
      [] p = "version" -> DescribeOutputs
      [] p = "pending" -> OrchStatusOutputs
      [] p = "repo_size" -> RepoSizeAnswers
      [] p = "last_change" -> LastLogOutputs
      [] p = "project_license" -> LicenseDirs
      [] p = "dominant_language" -> {"none"}

\* the output of task p when its collaborator answers ans
ProbeOutcome(p, ans) ==
    CASE p = "config" -> get_configuration(ans)
      [] p = "git_history" -> get_git_history(ans)
      [] p = "current_commit_info" -> get_current_commit_info(ans)
      [] p = "git_info" -> get_git_info(ans.version, ans.username)
      [] p = "version" -> get_version(ans)
      [] p = "pending" -> get_pending_changes(ans)
      [] p = "repo_size" -> get_packed_size(ans.count_objects, ans.ls_stdout, ans.ls_stderr)
      [] p = "last_change" -> get_last_change(ans)
      [] p = "project_license" -> get_project_license(ans)
      [] p = "dominant_language" -> get_dominant_language(locals.languages_stats)

RepositoryDiscoverAlwaysOk(found) == Ok("repo")

\* Repository::discover(&dir).map_err(|_| Error::NotGitRepo)
RepositoryDiscover(found) == IF found THEN Ok("repo") ELSE Err("NotGitRepo")

\* repo.workdir().ok_or(Error::BareGitRepo)
RepoWorkdir(workdir) == IF workdir = "none" THEN Err("BareGitRepo") ELSE Ok(workdir)

\* the first Err of a sequence of results: what the first failing `?` returns
FirstErr(results) ==
    LET E == {k \in 1..Len(results) : results[k].kind = "Err"}
    IN  IF E = {} THEN <<>> ELSE <<results[CHOOSE k \in E : \A j \in E : k <= j]>>

\* the results Info::new applies `?` to after the join, in the order it does
Questioned ==
    <<val["config"], val["current_commit_info"], val["version"], locals.creation_date,
      val["last_change"], val["pending"], val["repo_size"], val["project_license"]>>

AllDone == \A p \in ProbeSet : probe[p] = "done"

JoinReadyFirstError == AllDone \/ \E p \in ProbeSet : val[p].kind = "Err"

\* futures::join!: ready when every task has ended
JoinReady == AllDone

Idle == {k \in 1..Len(Probes) : probe[Probes[k]] = "idle"}
NextIdle == Probes[CHOOSE k \in Idle : \A j \in Idle : k <= j]

NoLocals ==
    [languages_stats |-> <<>>, number_of_lines |-> 0, creation_date |-> NoVal,
     number_of_commits |-> "", authors |-> <<>>]

OrchInit ==
    /\ pc = "discover"
    /\ world = <<>>
    /\ probe = [p \in ProbeSet |-> "idle"]
    /\ val = [p \in ProbeSet |-> NoVal]
    /\ locals = NoLocals
    /\ ret = NoVal
    /\ summary = <<>>

OrchIdle ==
    /\ pc = "off"
    /\ world = <<>>
    /\ probe = <<>>
    /\ val = <<>>
    /\ locals = <<>>
    /\ ret = NoVal
    /\ summary = <<>>

nonOrch == <<pendVars, renderVars, langVars, authVars, licVars, infoVars>>

\* Repository::discover fails: return Err(NotGitRepo)
DiscoverErr ==
    /\ pc = "discover"
    /\ \E found \in BOOLEAN :
          /\ RepositoryDiscover(found).kind = "Err"
          /\ world' = world @@ ("discover" :> found)
          /\ ret' = RepositoryDiscover(found)
    /\ pc' = "returned"
    /\ UNCHANGED <<probe, val, locals, summary, nonOrch>>

DiscoverOk ==
    /\ pc = "discover"
    /\ \E found \in BOOLEAN :
          /\ RepositoryDiscover(found).kind = "Ok"
          /\ world' = world @@ ("discover" :> found)
    /\ pc' = "workdir"
    /\ UNCHANGED <<probe, val, locals, ret, summary, nonOrch>>

\* repo.workdir() is None: return Err(BareGitRepo)
WorkdirErr ==
    /\ pc = "workdir"
    /\ \E workdir \in {"none"} :
          /\ RepoWorkdir(workdir).kind = "Err"
          /\ world' = world @@ ("workdir" :> workdir)
          /\ ret' = RepoWorkdir(workdir)
    /\ pc' = "returned"
    /\ UNCHANGED <<probe, val, locals, summary, nonOrch>>

\* workdir.to_str().unwrap() on a path that is not UTF-8
WorkdirPanic ==
    /\ pc = "workdir"
    /\ world' = world @@ ("workdir" :> "not-utf8")
    /\ RepoWorkdir("not-utf8").kind = "Ok"
    /\ ret' = Panicked
    /\ pc' = "panic"
    /\ UNCHANGED <<probe, val, locals, summary, nonOrch>>

WorkdirOk ==
    /\ pc = "workdir"
    /\ \E workdir \in {"none", "/repo/"} :
          /\ RepoWorkdir(workdir).kind = "Ok"
          /\ world' = world @@ ("workdir" :> workdir)
    /\ pc' = "stats"
    /\ UNCHANGED <<probe, val, locals, ret, summary, nonOrch>>

\* Language::get_language_stats(...)? fails: return Err(SourceCodeNotFound)
LanguageStatsErr ==
    /\ pc = "stats"
    /\ \E tokei \in OrchTokei :
          /\ get_languages_stat(tokei) = <<>>
          /\ world' = world @@ ("tokei" :> tokei)
    /\ ret' = Err("SourceCodeNotFound")
    /\ pc' = "returned"
    /\ UNCHANGED <<probe, val, locals, summary, nonOrch>>

LanguageStatsOk ==
    /\ pc = "stats"
    /\ \E tokei \in OrchTokei :
          /\ get_languages_stat(tokei) # <<>>
          /\ world' = world @@ ("tokei" :> tokei)
          /\ \E order \in HashOrders(Len(tokei)) :
                LET languages_stat == get_languages_stat(tokei)[1]
                    collected ==
                        [k \in 1..Len(languages_stat) |-> languages_stat[order[k]]]
                IN  locals' = [locals EXCEPT !.languages_stats = SortDesc(collected),
                                             !.number_of_lines = get_total_loc(tokei)]
    /\ pc' = "join"
    /\ UNCHANGED <<probe, val, ret, summary, nonOrch>>

\* first poll of a task that awaits nothing: it runs to its end
PollSync ==
    /\ pc = "join"
    /\ Idle # {}
    /\ NextIdle \in SyncProbes
    /\ \E ans \in Answers(NextIdle) :
          /\ ProbeOutcome(NextIdle, ans).kind # "Panic"
          /\ world' = world @@ (NextIdle :> ans)
          /\ val' = [val EXCEPT ![NextIdle] = ProbeOutcome(NextIdle, ans)]
    /\ probe' = [probe EXCEPT ![NextIdle] = "done"]
    /\ UNCHANGED <<pc, locals, ret, summary, nonOrch>>

\* ... or panics (an unwrap in get_configuration)
PollSyncPanic ==
    /\ pc = "join"
    /\ Idle # {}
    /\ NextIdle \in SyncProbes
    /\ \E ans \in Answers(NextIdle) :
          /\ ProbeOutcome(NextIdle, ans).kind = "Panic"
          /\ world' = world @@ (NextIdle :> ans)
    /\ ret' = Panicked
    /\ pc' = "panic"
    /\ UNCHANGED <<probe, val, locals, summary, nonOrch>>

\* first poll of a task that runs git: the command is started, the task pends
PollSpawn ==
    /\ pc = "join"
    /\ Idle # {}
    /\ NextIdle \notin SyncProbes
    /\ probe' = [probe EXCEPT ![NextIdle] = "pending"]
    /\ UNCHANGED <<pc, world, val, locals, ret, summary, nonOrch>>

\* ... or git cannot be run: expect("Failed to execute git.") panics
PollSpawnFail ==
    /\ pc = "join"
    /\ Idle # {}
    /\ NextIdle \notin SyncProbes
    /\ world' = world @@ (NextIdle :> "failed to execute")
    /\ ret' = Panicked
    /\ pc' = "panic"
    /\ UNCHANGED <<probe, val, locals, summary, nonOrch>>

\* a later poll finds the commands of a pending task ended: the task ends
Complete ==
    /\ pc = "join"
    /\ Idle = {}
    /\ \E p \in ProbeSet :
          /\ probe[p] = "pending"
          /\ \E ans \in Answers(p) :
                /\ ProbeOutcome(p, ans).kind # "Panic"
                /\ world' = world @@ (p :> ans)
                /\ val' = [val EXCEPT ![p] = ProbeOutcome(p, ans)]
          /\ probe' = [probe EXCEPT ![p] = "done"]
    /\ UNCHANGED <<pc, locals, ret, summary, nonOrch>>

\* ... or the task panics on what the command printed
CompletePanic ==
    /\ pc = "join"
    /\ Idle = {}
    /\ \E p \in ProbeSet :
          /\ probe[p] = "pending"
          /\ \E ans \in Answers(p) :
                /\ ProbeOutcome(p, ans).kind = "Panic"
                /\ world' = world @@ (p :> ans)
    /\ ret' = Panicked
    /\ pc' = "panic"
    /\ UNCHANGED <<probe, val, locals, summary, nonOrch>>

\* the join is ready: the three reducers of the history
Reducers ==
    /\ pc = "join"
    /\ JoinReady
    /\ ~HistoryMalformed(val["git_history"].v)
    /\ \E author_nb \in 0..MaxAuthorNb :
       \E order \in HashOrders(Len(AuthorKeys(val["git_history"].v))) :
          LET git_history == val["git_history"].v
              authors == get_authors(git_history, author_nb, order)
          IN  /\ authors.kind = "Ok"
              /\ world' = world @@ ("author_nb" :> author_nb)
              /\ locals' = [locals EXCEPT
                               !.creation_date = get_creation_date(git_history),
                               !.number_of_commits = get_number_of_commits(git_history),
                               !.authors = authors.v]
    /\ pc' = "finish"
    /\ UNCHANGED <<probe, val, ret, summary, nonOrch>>

\* ... get_authors panics on a history line that has no tab
ReducersPanic ==
    /\ pc = "join"
    /\ JoinReady
    /\ HistoryMalformed(val["git_history"].v)
    /\ get_authors(val["git_history"].v, 0, <<>>).kind = "Panic"
    /\ ret' = Panicked
    /\ pc' = "panic"
    /\ UNCHANGED <<world, probe, val, locals, summary, nonOrch>>

\* `config?` or a `?` inside Ok(Info {...}) returns the first error
FinishErr ==
    /\ pc = "finish"
    /\ FirstErr(Questioned) # <<>>
    /\ ret' = FirstErr(Questioned)[1]
    /\ pc' = "returned"
    /\ UNCHANGED <<world, probe, val, locals, summary, nonOrch>>

\* Ok(Info {...})
FinishOk ==
    /\ pc = "finish"
    /\ FirstErr(Questioned) = <<>>
    /\ summary' =
          <<[git_version |-> val["git_info"].v.git_v,
             git_username |-> val["git_info"].v.git_user,
             project_name |-> val["config"].v.repository_name,
             current_commit |-> val["current_commit_info"].v,
             version |-> val["version"].v,
             creation_date |-> locals.creation_date.v,
             dominant_language |-> val["dominant_language"].v,
             languages |-> locals.languages_stats,
             authors |-> locals.authors,
             last_change |-> val["last_change"].v,
             repo |-> val["config"].v.repository_url,
             commits |-> locals.number_of_commits,
             pending |-> val["pending"].v,
             repo_size |-> val["repo_size"].v,
             number_of_lines |-> locals.number_of_lines,
             license |-> val["project_license"].v]>>
    /\ ret' = Ok("Info")
    /\ pc' = "returned"
    /\ UNCHANGED <<world, probe, val, locals, nonOrch>>

OrchNext ==
    \/ DiscoverErr \/ DiscoverOk
    \/ WorkdirErr \/ WorkdirPanic \/ WorkdirOk
    \/ LanguageStatsErr \/ LanguageStatsOk
    \/ PollSync \/ PollSyncPanic \/ PollSpawn \/ PollSpawnFail
    \/ Complete \/ CompletePanic
    \/ Reducers \/ ReducersPanic
    \/ FinishErr \/ FinishOk

(***************************************************************************)
(* Display for Info: the info block of fmt (up to `let center_pad`).       *)
(* A ColoredString is displayed as its escape sequences around the text;   *)
(* the escape character is written ^[ here.                                *)
(***************************************************************************)
\* the blocks of fmt, in the order they are written
InfoBlocks ==
    <<"git_info", "project", "head", "pending", "version", "created", "languages",
      "authors", "last_change", "repo", "commits", "lines_of_code", "size", "license",
      "color_blocks">>

\* the flags of InfoFieldOn
InfoFields == {InfoBlocks[k] : k \in 1..14}

\* the blocks that are `if !self.disable_fields.x { write_buf(label, &self.y) }`
PlainBlocks ==
    {"project", "head", "version", "created", "last_change", "repo", "commits",
     "lines_of_code", "size", "license"}

\* the SGR code of a foreground colour
ColorCode(c) == IF c = "cyan" THEN "36" ELSE "37"

\* `let color` of fmt: the first of self.colors(), White when there is none
FirstColor(self) == IF Len(self.colors) > 0 THEN self.colors[1] ELSE "white"

\* Info::get_formatted_info_label, displayed
get_formatted_info_label(self, label, c) ==
    "^[[" \o (IF self.bold_enabled THEN "1;" ELSE "") \o ColorCode(c) \o "m"
        \o label \o "^[[0m"

\* write_buf: writeln!(buffer, "{}{}", title, content)
write_buf(title, content) == title \o content \o NL

\* format!("{:.*}", 1, x): x to one decimal, rounded to the nearest tenth
Fixed1(x) ==
    LET t == (x.num * 20 + x.den) \div (2 * x.den)
    IN  Dec(t \div 10) \o "." \o Dec(t % 10)

\* the title and the content of a plain block
PlainTitle(b) ==
    CASE b = "project" -> "Project: "
      [] b = "head" -> "HEAD: "
      [] b = "version" -> "Version: "
      [] b = "created" -> "Created: "
      [] b = "last_change" -> "Last change: "
      [] b = "repo" -> "Repo: "
      [] b = "commits" -> "Commits: "
      [] b = "lines_of_code" -> "Lines of code: "
      [] b = "size" -> "Size: "
      [] b = "license" -> "License: "

PlainContent(self, b) ==
    CASE b = "project" -> self.project_name
      [] b = "head" -> self.current_commit
      [] b = "version" -> self.version
      [] b = "created" -> self.creation_date
      [] b = "last_change" -> self.last_change
      [] b = "repo" -> self.repo
      [] b = "commits" -> self.commits
      [] b = "lines_of_code" -> Dec(self.number_of_lines)
      [] b = "size" -> self.repo_size
      [] b = "license" -> self.license

\* fmt, the git_info block: what it appends to buf
fmt_git_info(self) ==
    LET c == FirstColor(self)
        git_info_length ==
            IF self.git_username # ""
            THEN Len(self.git_username) + Len(self.git_version) + 3
            ELSE Len(self.git_version)
        separator == Repeat("-", git_info_length)
    IN  IF ~self.disable_fields["git_info"]
        THEN (IF self.git_username # ""
              THEN get_formatted_info_label(self, self.git_username, c) \o " ~ "
              ELSE "")
                \o write_buf(get_formatted_info_label(self, self.git_version, c), "")
                \o write_buf(get_formatted_info_label(self, "", c), separator)
        ELSE ""

\* fmt, a plain block
fmt_plain(self, b) ==
    IF ~self.disable_fields[b]
    THEN write_buf(get_formatted_info_label(self, PlainTitle(b), FirstColor(self)),
                   PlainContent(self, b))
    ELSE ""

fmt_pending_always(self) ==
    IF ~self.disable_fields["pending"]
    THEN write_buf(get_formatted_info_label(self, "Pending: ", FirstColor(self)),
                   self.pending)
    ELSE ""

\* fmt, the pending block
fmt_pending(self) ==
    IF ~self.disable_fields["pending"] /\ self.pending # ""
    THEN write_buf(get_formatted_info_label(self, "Pending: ", FirstColor(self)),
                   self.pending)
    ELSE ""

\* the local `s` of the languages block after the entries from index k on
RECURSIVE LanguagesText(_, _, _)
LanguagesText(languages, k, pad) ==
    IF k > Len(languages) THEN ""
    ELSE LET cnt == k - 1
             formatted_number == Fixed1(languages[k].pct)
             entry == languages[k].lang \o " (" \o formatted_number \o " %) "
         IN  (IF cnt # 0 /\ cnt % 3 = 0 THEN NL \o pad \o entry ELSE entry)
                 \o LanguagesText(languages, k + 1, pad)

\* fmt, the languages block
fmt_languages(self) ==
    LET c == FirstColor(self)
        title == "Languages: "
        pad == Repeat(" ", Len(title))
    IN  IF ~self.disable_fields["languages"] /\ self.languages # <<>>
        THEN IF Len(self.languages) > 1
             THEN get_formatted_info_label(self, title, c)
                     \o LanguagesText(DisplayedLanguages(self.languages), 1, pad) \o NL
             ELSE write_buf(get_formatted_info_label(self, "Language: ", c),
                            self.dominant_language)
        ELSE ""

\* the line of one author under a title
AuthorLine(self, title, author) ==
    get_formatted_info_label(self, title, FirstColor(self))
        \o Dec(author.pct) \o "% " \o author.name \o " " \o Dec(author.count) \o NL

\* the lines of the authors from index k on, under the blank title
RECURSIVE AuthorLinesFrom(_, _, _)
AuthorLinesFrom(self, k, title) ==
    IF k > Len(self.authors) THEN ""
    ELSE AuthorLine(self, title, self.authors[k]) \o AuthorLinesFrom(self, k + 1, title)

\* fmt, the authors block
fmt_authors(self) ==
    LET title == IF Len(self.authors) > 1 THEN "Authors: " ELSE "Author: "
    IN  IF ~self.disable_fields["authors"] /\ self.authors # <<>>
        THEN AuthorLine(self, title, self.authors[1])
                \o AuthorLinesFrom(self, 2, Repeat(" ", Len(title)))
        ELSE ""

\* "   ".on_black() and the seven after it, displayed
ColorBlock(code) == "^[[" \o code \o "m   ^[[0m"
ColorBlocks ==
    ColorBlock("40") \o ColorBlock("41") \o ColorBlock("42") \o ColorBlock("43")
        \o ColorBlock("44") \o ColorBlock("45") \o ColorBlock("46") \o ColorBlock("47")

\* fmt, the colour blocks: an empty line and the eight blocks
fmt_color_blocks(self) ==
    IF ~self.no_color_blocks THEN NL \o ColorBlocks \o NL ELSE ""

\* what block b appends to buf
fmt_block(self, b) ==
    CASE b = "git_info" -> fmt_git_info(self)
      [] b = "pending" -> fmt_pending(self)
      [] b = "languages" -> fmt_languages(self)
      [] b = "authors" -> fmt_authors(self)
      [] b = "color_blocks" -> fmt_color_blocks(self)
      [] b \in PlainBlocks -> fmt_plain(self, b)

\* InfoFieldOn values with at most MaxDisabled fields suppressed
DisableFieldsSet ==
    {d \in [InfoFields -> BOOLEAN] : Cardinality({x \in InfoFields : d[x]}) <= MaxDisabled}

\* Vec<(Language, f64)> of a summary: never empty, sorted descending
InfoLanguages ==
    {<<[lang |-> "C", pct |-> Frac(100, 1)]>>,
     <<[lang |-> "C", pct |-> Frac(200, 5)], [lang |-> "CSS", pct |-> Frac(100, 5)],
       [lang |-> "D", pct |-> Frac(100, 5)], [lang |-> "Dart", pct |-> Frac(100, 5)]>>}

\* Vec<(String, usize, usize)> of a summary
InfoAuthors ==
    {<<>>,
     <<[name |-> "Ann", count |-> 2, pct |-> 100]>>,
     <<[name |-> "Ann", count |-> 1, pct |-> 50], [name |-> "Bob", count |-> 1, pct |-> 50]>>}

\* the styles: no colour of its own and plain labels, or cyan and bold labels
InfoStyles ==
    {[colors |-> <<>>, bold_enabled |-> FALSE],
     [colors |-> <<"cyan">>, bold_enabled |-> TRUE]}

\* the Info values fmt is applied to
InfoSet ==
    {[git_version |-> "git 2.3", git_username |-> u, project_name |-> "onefetch",
      current_commit |-> "a1b2c3d (main)", version |-> "v1.0",
      creation_date |-> "3 weeks ago", dominant_language |-> l[1].lang,
      languages |-> l, authors |-> a, last_change |-> "2 days ago",
      repo |-> "https://x.org/y.git", commits |-> "2", pending |-> p,
      repo_size |-> "1.2 MiB (3 files)", number_of_lines |-> 120, license |-> "MIT",
      colors |-> st.colors, disable_fields |-> d, bold_enabled |-> st.bold_enabled,
      no_color_blocks |-> ncb] :
        u \in {"", "ann"}, l \in InfoLanguages, a \in InfoAuthors, p \in {"", "1+-"},
        st \in InfoStyles, d \in DisableFieldsSet, ncb \in BOOLEAN}

InfoInit ==
    /\ bpc = 1
    /\ info \in InfoSet
    /\ buf = ""

InfoIdle ==
    /\ bpc = 0
    /\ info = <<>>
    /\ buf = ""

\* the block fmt is at
AtBlock(b) == bpc \in 1..Len(InfoBlocks) /\ InfoBlocks[bpc] = b

\* fmt, `if !self.disable_fields.git_info {...}`
BlockGitInfo ==
    /\ AtBlock("git_info")
    /\ buf' = buf \o fmt_git_info(info)
    /\ bpc' = bpc + 1
    /\ UNCHANGED <<info, orchVars, pendVars, renderVars, langVars, authVars, licVars>>

\* fmt, one of the plain blocks
BlockPlain ==
    /\ \E b \in PlainBlocks :
          /\ AtBlock(b)
          /\ buf' = buf \o fmt_plain(info, b)
    /\ bpc' = bpc + 1
    /\ UNCHANGED <<info, orchVars, pendVars, renderVars, langVars, authVars, licVars>>

\* fmt, `if !self.disable_fields.pending && self.pending != "" {...}`
BlockPending ==
    /\ AtBlock("pending")
    /\ buf' = buf \o fmt_pending(info)
    /\ bpc' = bpc + 1
    /\ UNCHANGED <<info, orchVars, pendVars, renderVars, langVars, authVars, licVars>>

\* fmt, `if !self.disable_fields.languages && !self.languages.is_empty() {...}`
BlockLanguages ==
    /\ AtBlock("languages")
    /\ buf' = buf \o fmt_languages(info)
    /\ bpc' = bpc + 1
    /\ UNCHANGED <<info, orchVars, pendVars, renderVars, langVars, authVars, licVars>>

\* fmt, `if !self.disable_fields.authors && !self.authors.is_empty() {...}`
BlockAuthors ==
    /\ AtBlock("authors")
    /\ buf' = buf \o fmt_authors(info)
    /\ bpc' = bpc + 1
    /\ UNCHANGED <<info, orchVars, pendVars, renderVars, langVars, authVars, licVars>>

\* fmt, `if !self.no_color_blocks {...}`
BlockColorBlocks ==
    /\ AtBlock("color_blocks")
    /\ buf' = buf \o fmt_color_blocks(info)
    /\ bpc' = bpc + 1
    /\ UNCHANGED <<info, orchVars, pendVars, renderVars, langVars, authVars, licVars>>

InfoNext ==
    \/ BlockGitInfo \/ BlockPlain \/ BlockPending
    \/ BlockLanguages \/ BlockAuthors \/ BlockColorBlocks

(***************************************************************************)
(* Specifications: one per part of the program.                            *)
(***************************************************************************)
\* Info::new against every bounded answer of its collaborators
SpecInit ==
    OrchInit /\ PendIdle /\ RenderIdle /\ LangIdle
        /\ AuthIdle /\ LicIdle /\ InfoIdle
Spec == SpecInit /\ [][OrchNext]_vars

\* get_pending_changes applied to every bounded status output
PendSpecInit ==
    PendInit /\ OrchIdle /\ RenderIdle /\ LangIdle
        /\ AuthIdle /\ LicIdle /\ InfoIdle
PendSpec == PendSpecInit /\ [][PendNext]_vars

\* the language statistics of every bounded answer of the collaborator, and
\* the list the Languages field shows
LangSpecInit ==
    LangInit /\ OrchIdle /\ PendIdle /\ RenderIdle
        /\ AuthIdle /\ LicIdle /\ InfoIdle
LangSpec == LangSpecInit /\ [][LangNext]_vars

\* get_authors called on its own
AuthSpecInit ==
    AuthInit /\ OrchIdle /\ PendIdle /\ RenderIdle /\ LangIdle /\ LicIdle /\ InfoIdle
AuthSpec == AuthSpecInit /\ [][AuthNext]_vars

\* get_project_license called on its own
LicSpecInit ==
    LicInit /\ OrchIdle /\ PendIdle /\ RenderIdle /\ LangIdle /\ AuthIdle /\ InfoIdle
LicSpec == LicSpecInit /\ [][LicNext]_vars

\* the render part of fmt; an iteration of the loop is always taken
RenderSpecInit ==
    RenderInit /\ OrchIdle /\ PendIdle /\ LangIdle
        /\ AuthIdle /\ LicIdle /\ InfoIdle
RenderSpec ==
    /\ RenderSpecInit
    /\ [][RenderNext]_vars
    /\ WF_vars(RenderNext)

\* the info block of fmt on every bounded Info
InfoSpecInit ==
    InfoInit /\ OrchIdle /\ PendIdle /\ RenderIdle
        /\ LangIdle /\ AuthIdle /\ LicIdle
InfoSpec == InfoSpecInit /\ [][InfoNext]_vars

(***************************************************************************)
(* Info::new (Spec).                                                       *)
(***************************************************************************)
Asked == DOMAIN world
Done(p) == probe[p] = "done"
Returned == pc = "returned"

NotARepository == "discover" \in Asked /\ ~world["discover"]
BareRepository == "workdir" \in Asked /\ world["workdir"] = "none"
NoSourceCode == "tokei" \in Asked /\ SumCode(world["tokei"]) = 0
ConfigFailed == Done("config") /\ ~world["config"].config
HeadFailed == Done("current_commit_info") /\ ~world["current_commit_info"].head
LicenseDirUnreadable ==
    /\ Done("project_license")
    /\ world["project_license"].detector
    /\ ~world["project_license"].readable
LicenseDetectorFailed == Done("project_license") /\ ~world["project_license"].detector

SummaryFields ==
    {"git_version", "git_username", "project_name", "current_commit", "version",
     "creation_date", "dominant_language", "languages", "authors", "last_change",
     "repo", "commits", "pending", "repo_size", "number_of_lines", "license"}

CompleteSummary == Len(summary) = 1 /\ DOMAIN summary[1] = SummaryFields

\* C1: on a path outside a repository Info::new returns NotARepository, on a
\* repository without a working tree BareRepository, and in both cases no
\* other probe has been started.
C1_CriticalProbesAbort ==
    /\ NotARepository =>
          /\ Returned
          /\ ret = Err("NotGitRepo")
          /\ Asked = {"discover"}
          /\ \A p \in ProbeSet : probe[p] = "idle"
          /\ locals = NoLocals
    /\ BareRepository =>
          /\ Returned
          /\ ret = Err("BareGitRepo")
          /\ Asked = {"discover", "workdir"}
          /\ \A p \in ProbeSet : probe[p] = "idle"
          /\ locals = NoLocals

C1_Witness == Returned /\ BareRepository /\ ret = Err("BareGitRepo")

C1_WitnessNotARepository == Returned /\ NotARepository /\ ret = Err("NotGitRepo")

FiveFatalKinds ==
    {"NotGitRepo", "BareGitRepo", "SourceCodeNotFound", "ReferenceInfoError", "NoGitData"}

C2_WitnessOk ==
    /\ Returned
    /\ ret.kind = "Ok"
    /\ world["version"] = ""
    /\ world["repo_size"].ls_stderr # ""

\* C3: after the tasks have been launched, Info::new decides (runs the
\* reducers, returns) only when every task has ended; a failed task does not
\* end the join early.
C3_FullJoin ==
    (pc \in {"finish", "returned"} /\ \E p \in ProbeSet : probe[p] # "idle") =>
        \A p \in ProbeSet : Done(p) /\ val[p].kind \in {"Ok", "Err"}

C3_Witness ==
    /\ Returned
    /\ ret = Err("NoGitData")
    /\ AllDone
    /\ val["current_commit_info"].kind = "Err"
    /\ Len(val["git_history"].v) = 2

C3_WitnessStillJoining ==
    /\ pc = "join"
    /\ val["config"].kind = "Err"
    /\ probe["version"] = "pending"
    /\ Done("pending")

\* no size-pack line in the output of count-objects
NoSizePackLine(count_objects) ==
    \A k \in 1..Len(Split(count_objects, NL)) :
        ~StartsWith(Split(count_objects, NL)[k], "size-pack:")

\* the classifier recognizes no file of the directory
NothingClassified(dir) == \A k \in 1..Len(dir.entries) : dir.entries[k].license = <<>>

\* the tasks that have no error to return
NonCritical == {"git_history", "git_info", "version", "pending", "repo_size", "last_change"}

\* C4: an empty output of a non-critical probe does not abort, and the
\* summary holds "??" for the tag version, the last change, the license and
\* the creation date; the packed size is "??" too, in the field that carries
\* it together with the count of tracked files (" (<n> files)", appended
\* when the file listing reported no error).
C4_Sentinel ==
    /\ \A p \in NonCritical : Done(p) => val[p].kind = "Ok"
    /\ (Done("project_license") /\ world["project_license"].detector
            /\ world["project_license"].readable
            /\ NothingClassified(world["project_license"]))
          => val["project_license"] = Ok(QQ)
    /\ (Returned /\ ret.kind = "Ok") =>
          /\ world["version"] = "" => summary[1].version = QQ
          /\ world["last_change"] = "" => summary[1].last_change = QQ
          /\ NothingClassified(world["project_license"]) => summary[1].license = QQ
          /\ NoSizePackLine(world["repo_size"].count_objects) =>
                summary[1].repo_size =
                    IF world["repo_size"].ls_stderr = ""
                    THEN QQ \o " (" \o Dec(Len(Split(world["repo_size"].ls_stdout, NL)) - 1)
                            \o " files)"
                    ELSE QQ
          /\ world["git_history"] = "" => summary[1].creation_date = QQ

C4_Witness ==
    /\ Returned
    /\ ret.kind = "Ok"
    /\ world["version"] = ""
    /\ world["last_change"] = ""
    /\ world["git_history"] = ""
    /\ NothingClassified(world["project_license"])
    /\ summary[1].repo_size = "?? (2 files)"
    /\ summary[1].license = QQ
    /\ summary[1].creation_date = QQ

(***************************************************************************)
(* get_authors (AuthSpec).                                                 *)
(***************************************************************************)
\* the author label of a commit record: the text after the first tab, up to
\* the next one
LabelOf(line) ==
    LET rest == SubSeq(line, IndexOf(line, TAB) + 1, Len(line))
    IN  IF IndexOf(rest, TAB) = 0 THEN rest ELSE SubSeq(rest, 1, IndexOf(rest, TAB) - 1)

RecordLabels == {LabelOf(history_lines[k]) : k \in 1..Len(history_lines)}
CommitsOf(label) ==
    Cardinality({k \in 1..Len(history_lines) : LabelOf(history_lines[k]) = label})

RECURSIVE SumCounts(_)
SumCounts(v) == IF v = <<>> THEN 0 ELSE Head(v).count + SumCounts(Tail(v))

RECURSIVE SumPcts(_)
SumPcts(v) == IF v = <<>> THEN 0 ELSE Head(v).pct + SumPcts(Tail(v))

AuthorsReturned == apc = "ret"

\* C11: the counts get_authors holds before truncation sum to the number of
\* commit records, one entry per distinct label; the list returned has
\* min(n, number of distinct labels) entries; an empty history gives an
\* empty list.
C11_CountsAndLength ==
    AuthorsReturned =>
        /\ SumCounts(counted) = Len(history_lines)
        /\ Len(counted) = Cardinality(RecordLabels)
        /\ \A k \in 1..Len(counted) : counted[k].count = CommitsOf(counted[k].name)
        /\ Len(authors_res) = Min(top_n, Cardinality(RecordLabels))
        /\ history_lines = <<>> => authors_res = <<>>

C11_Witness ==
    /\ AuthorsReturned
    /\ Len(history_lines) = 3
    /\ Cardinality(RecordLabels) = 2
    /\ top_n = 1
    /\ Len(authors_res) = 1

C11_WitnessEmptyHistory == AuthorsReturned /\ history_lines = <<>> /\ top_n = 2

\* how many authors of the history have at least c commits
AuthorsWithAtLeast(c) == Cardinality({a \in RecordLabels : CommitsOf(a) >= c})

\* C12: the list returned is sorted non-increasing by commit count and holds
\* the top n: no author left out has more commits than a retained one.
C12_SortedTopN ==
    AuthorsReturned =>
        /\ \A k \in 1..(Len(authors_res) - 1) :
              authors_res[k].count >= authors_res[k + 1].count
        /\ \A k \in 1..Len(authors_res) :
              \E a \in RecordLabels :
                 /\ authors_res[k].count = CommitsOf(a)
                 /\ authors_res[k].name = TrimBy(a, {"'"})
        /\ \A c \in 1..(Len(history_lines) + 1) :
              Cardinality({k \in 1..Len(authors_res) : authors_res[k].count >= c})
                 = Min(Len(authors_res), AuthorsWithAtLeast(c))

C12_Witness ==
    /\ AuthorsReturned
    /\ Cardinality(RecordLabels) = 2
    /\ top_n = 1
    /\ authors_res[1].count = 2
    /\ LabelOf(history_lines[1]) # LabelOf(history_lines[2])
    /\ LabelOf(history_lines[2]) = LabelOf(history_lines[3])

\* C13: the percentage of a retained author is floor(count * 100 / total),
\* total being the number of all commit records; it is an integer of 0..100
\* and the percentages returned sum to at most 100.
C13_FloorPercentage ==
    AuthorsReturned =>
        /\ \A k \in 1..Len(authors_res) :
              /\ authors_res[k].pct \in 0..100
              /\ authors_res[k].pct * Len(history_lines) <= authors_res[k].count * 100
              /\ (authors_res[k].pct + 1) * Len(history_lines) > authors_res[k].count * 100
        /\ SumPcts(authors_res) <= 100

C13_Witness ==
    /\ AuthorsReturned
    /\ Len(history_lines) = 3
    /\ Len(authors_res) = 1
    /\ authors_res[1].count = 2
    /\ authors_res[1].pct = 66

C13_WitnessThirds ==
    /\ AuthorsReturned
    /\ Len(authors_res) = 2
    /\ SumPcts(authors_res) = 66

\* one layer of surrounding quote characters removed
TrimOneLayer(label) ==
    IF Len(label) >= 2 /\ CharAt(label, 1) = "'" /\ CharAt(label, Len(label)) = "'"
    THEN SubSeq(label, 2, Len(label) - 1)
    ELSE label

\* C14: commits are grouped by the label with one layer of surrounding quotes
\* removed: no two entries returned carry the same display name, each entry
\* counts all the commits of its display name, and the display name is the
\* label less one layer of quotes.
C14_GroupedByTrimmedLabel ==
    AuthorsReturned =>
        /\ \A i, j \in 1..Len(authors_res) :
              authors_res[i].name = authors_res[j].name => i = j
        /\ \A k \in 1..Len(authors_res) :
              /\ \E a \in RecordLabels : authors_res[k].name = TrimOneLayer(a)
              /\ authors_res[k].count =
                    Cardinality({r \in 1..Len(history_lines) :
                        TrimOneLayer(LabelOf(history_lines[r])) = authors_res[k].name})

(***************************************************************************)
(* Language statistics (LangSpec, Spec).                                   *)
(***************************************************************************)
\* the code lines the collaborator counted for a language
CodeOf(lang) ==
    LET K == {k \in 1..Len(tokei_langs) : tokei_langs[k].lang = lang}
    IN  IF K = {} THEN 0 ELSE tokei_langs[CHOOSE k \in K : TRUE].code

TotalCode == SumCode(tokei_langs)

RECURSIVE SumPct(_)
SumPct(v) == IF v = <<>> THEN Frac(0, 1) ELSE FracAdd(Head(v).pct, SumPct(Tail(v)))

StatsReturned == lpc \in {"sorted", "shown", "single"}

\* C15: when some language has code lines, the percentage of each language is
\* 100 * lines(L) / sum of all lines, lies in [0, 100], and the percentages
\* sum to 100 (as exact quotients: the rounding of f64 is left out).
C15_Percentages ==
    /\ StatsReturned <=> (lpc # "tokei" /\ lpc # "off" /\ TotalCode > 0)
    /\ StatsReturned =>
          /\ Len(stat_vec) = Len(tokei_langs)
          /\ \A k \in 1..Len(stat_vec) :
                /\ stat_vec[k].pct.den > 0
                /\ stat_vec[k].pct.num * TotalCode
                      = 100 * CodeOf(stat_vec[k].lang) * stat_vec[k].pct.den
                /\ stat_vec[k].pct.num >= 0
                /\ stat_vec[k].pct.num <= 100 * stat_vec[k].pct.den
          /\ SumPct(stat_vec).num = 100 * SumPct(stat_vec).den

C15_Witness ==
    /\ lpc = "sorted"
    /\ Len(stat_vec) = 3
    /\ FracEq(stat_vec[1].pct, Frac(50, 1))
    /\ FracEq(stat_vec[2].pct, Frac(50, 1))
    /\ FracEq(stat_vec[3].pct, Frac(0, 1))

C15_WitnessThirds ==
    /\ lpc = "sorted"
    /\ Len(stat_vec) = 3
    /\ \A k \in 1..3 : FracEq(stat_vec[k].pct, Frac(100, 3))

\* C16: the list get_language_stats returns is non-empty, sorted
\* non-increasing by percentage, with one entry per language counted; the
\* dominant language of the summary is the language of its first entry, and
\* no entry has a larger percentage.
C16_SortedDominant ==
    /\ ("tokei" \in Asked /\ SumCode(world["tokei"]) > 0) =>
          LET l == locals.languages_stats
          IN  /\ Len(l) >= 1
              /\ \A k \in 1..(Len(l) - 1) : ~FracLt(l[k].pct, l[k + 1].pct)
              /\ \A i, j \in 1..Len(l) : l[i].lang = l[j].lang => i = j
              /\ {l[k].lang : k \in 1..Len(l)}
                    = {world["tokei"][k].lang : k \in 1..Len(world["tokei"])}
              /\ Done("dominant_language") => val["dominant_language"] = Ok(l[1].lang)
    /\ (Returned /\ ret.kind = "Ok") =>
          /\ summary[1].languages = locals.languages_stats
          /\ summary[1].dominant_language = summary[1].languages[1].lang
          /\ \A k \in 1..Len(summary[1].languages) :
                ~FracLt(summary[1].languages[1].pct, summary[1].languages[k].pct)

C16_Witness ==
    /\ Returned
    /\ ret.kind = "Ok"
    /\ Len(summary[1].languages) = 3
    /\ world["tokei"][1].lang = "C"
    /\ summary[1].dominant_language = "CSS"
    /\ summary[1].languages[2].lang = "D"

\* C17: when the collaborator counts no code line (no language, or only
\* languages without code) Info::new returns NoSourceCodeFound and no
\* summary is produced; when it counts some, the language statistics succeed.
C17_NoSourceCode ==
    "tokei" \in Asked =>
        /\ SumCode(world["tokei"]) = 0 =>
              /\ Returned
              /\ ret = Err("SourceCodeNotFound")
              /\ summary = <<>>
              /\ locals = NoLocals
              /\ \A p \in ProbeSet : probe[p] = "idle"
        /\ SumCode(world["tokei"]) > 0 =>
              /\ pc # "stats"
              /\ ret # Err("SourceCodeNotFound")
              /\ locals.languages_stats # <<>>
              /\ locals.number_of_lines = SumCode(world["tokei"])

C17_Witness ==
    /\ Returned
    /\ ret = Err("SourceCodeNotFound")
    /\ Len(world["tokei"]) = 1
    /\ world["tokei"][1].code = 0

C17_WitnessNoLanguage == Returned /\ ret = Err("SourceCodeNotFound") /\ world["tokei"] = <<>>

(***************************************************************************)
(* The dual-stream render (RenderSpec).                                    *)
(***************************************************************************)
LogoLen == Len(logo.lines)
InfoLen == Len(info_lines)

\* the textual-logo render has ended
TextDone == rpc = "done" /\ ~custom_image

\* the output, cut at its line endings
OutputLines == Split(f, NL)

RECURSIVE DropTrailingEmpty(_)
DropTrailingEmpty(ls) ==
    IF ls # <<>> /\ ls[Len(ls)] = "" THEN DropTrailingEmpty(SubSeq(ls, 1, Len(ls) - 1))
    ELSE ls

\* the rows of the block: the output's lines up to the last one that is not empty
ContentRows == DropTrailingEmpty(OutputLines)

\* C5: the textual-logo render has max(L, I) content rows, and for every
\* k <= min(L, I) row k is logo line k, the 3-space gutter, info line k.
C5_ZipLockStep ==
    TextDone =>
        /\ Len(ContentRows) = Max(LogoLen, InfoLen)
        /\ \A k \in 1..Min(LogoLen, InfoLen) :
              ContentRows[k] = logo.lines[k] \o "   " \o info_lines[k]

C5_Witness ==
    /\ TextDone
    /\ Min(LogoLen, InfoLen) >= 2
    /\ LogoLen # InfoLen
    /\ info_lines[1] # info_lines[2]
    /\ logo.lines[1] # logo.lines[2]

\* C6: a row after the logo is exhausted is logo-width spaces, the gutter and
\* the info line; a row after the info is exhausted is the logo line alone;
\* an exhausted stream yields no further line.
C6_UnequalLengths ==
    /\ li <= LogoLen
    /\ ii <= InfoLen
    /\ TextDone =>
        /\ Len(ContentRows) = Max(LogoLen, InfoLen)
        /\ \A k \in (LogoLen + 1)..InfoLen :
              ContentRows[k] = Repeat(" ", logo.width) \o "   " \o info_lines[k]
        /\ \A k \in (InfoLen + 1)..LogoLen : ContentRows[k] = logo.lines[k]

C6_Witness ==
    /\ TextDone
    /\ LogoLen >= 1
    /\ InfoLen >= LogoLen + 2
    /\ logo.width = 2

C6_WitnessInfoExhausted == TextDone /\ InfoLen >= 1 /\ LogoLen >= InfoLen + 2

\* C7 as stated: the loop ends with exactly one blank line after the last
\* content row (the output is the rows, each with its line ending, and one more
\* line ending).
C7_OneTrailingBlankLine ==
    TextDone => OutputLines = ContentRows \o <<"", "">>

\* C7, amended: the loop terminates for every logo and info block, and ends
\* with exactly two line endings after the last content row: two blank lines.
C7_TerminatesTwoBlankLines ==
    /\ (rpc = "loop") ~> (rpc = "done")
    /\ [](TextDone =>
            /\ Len(ContentRows) = Max(LogoLen, InfoLen)
            /\ f = Unlines(ContentRows) \o NL \o NL)

C7_Witness == TextDone /\ LogoLen = 0 /\ InfoLen = 0 /\ f = NL \o NL

C7_WitnessRows == TextDone /\ LogoLen = 2 /\ InfoLen = 3

\* C8: every content row is at least as wide as the logo's declared width, and
\* in a row that carries an info line the info text starts at column
\* (declared width + gutter).
C8_ReservedColumn ==
    TextDone =>
        /\ Len(ContentRows) = Max(LogoLen, InfoLen)
        /\ \A k \in 1..Len(ContentRows) :
              /\ Len(ContentRows[k]) >= logo.width
              /\ k <= InfoLen =>
                    /\ Len(ContentRows[k]) = logo.width + 3 + Len(info_lines[k])
                    /\ SubSeq(ContentRows[k], logo.width + 4, Len(ContentRows[k]))
                          = info_lines[k]

C8_Witness ==
    /\ TextDone
    /\ LogoLen >= 1
    /\ InfoLen > LogoLen
    /\ info_lines[InfoLen] # ""
    /\ info_lines[1] # ""

(***************************************************************************)
(* The pending-change summarizer (PendSpec).                               *)
(***************************************************************************)
\* the two-character status codes of `git status --porcelain`, by class
DeletedCodes  == {"D ", " D"}
AddedCodes    == {"A ", " A", "AM", "??"}
ModifiedCodes == {"M ", " M", "MM", "R ", " R"}

StatusLines == Lines(status_output)

\* every line carries a status code
WellFormedStatus == \A k \in 1..Len(StatusLines) : Len(StatusLines[k]) >= 2

CountOf(codes) ==
    Cardinality({k \in 1..Len(StatusLines) : SubSeq(StatusLines[k], 1, 2) \in codes})

\* the non-empty parts, joined by one space
RECURSIVE JoinSpace(_)
JoinSpace(parts) ==
    IF parts = <<>> THEN ""
    ELSE IF Len(parts) = 1 THEN parts[1]
    ELSE parts[1] \o " " \o JoinSpace(Tail(parts))

ExpectedPending ==
    LET m == CountOf(ModifiedCodes)
        a == CountOf(AddedCodes)
        d == CountOf(DeletedCodes)
    IN  JoinSpace((IF m > 0 THEN <<Dec(m) \o "+-">> ELSE <<>>)
                  \o (IF a > 0 THEN <<Dec(a) \o "+">> ELSE <<>>)
                  \o (IF d > 0 THEN <<Dec(d) \o "-">> ELSE <<>>))

\* C9: for status lines that carry a status code, the summary is "<m>+-" if
\* m > 0, "<a>+" if a > 0, "<d>-" if d > 0, in this order, joined by single
\* spaces, where m, a, d count the lines by the class of their code; empty
\* input and input with no recognized line give the empty string.
C9_PendingSummary ==
    (ppc = "ret" /\ WellFormedStatus) =>
        /\ pending_res = Ok(ExpectedPending)
        /\ status_output = "" => pending_res.v = ""
        /\ status_output = "M  a.txt\n?? b.txt\nD  c.txt\n" => pending_res.v = "1+- 1+ 1-"

C9_Witness ==
    /\ ppc = "ret"
    /\ status_output = "M  a.txt\n?? b.txt\nD  c.txt\n"
    /\ pending_res = Ok("1+- 1+ 1-")

C9_WitnessUnrecognized ==
    /\ ppc = "ret"
    /\ status_output = "UU l\nRM k\n"
    /\ pending_res = Ok("")

(***************************************************************************)
(* Display bucketing (LangSpec).                                           *)
(***************************************************************************)

\* C10: a ranked list of more than 6 entries is displayed as its first 6
\* entries, unchanged and in order, and a 7th entry "Other" whose percentage
\* is the sum of the percentages of the entries of rank >= 6; a ranked list of
\* 2 to 6 entries is displayed as it is; the displayed percentages sum to the
\* total of the ranked list.
C10_DisplayBucketing ==
    lpc = "shown" =>
        /\ Len(stat_vec) > 6 =>
              /\ Len(shown) = 7
              /\ \A k \in 1..6 : shown[k] = stat_vec[k]
              /\ shown[7].lang = "Other"
              /\ FracEq(shown[7].pct, SumPct(SubSeq(stat_vec, 7, Len(stat_vec))))
        /\ Len(stat_vec) \in 2..6 => shown = stat_vec
        /\ FracEq(SumPct(shown), SumPct(stat_vec))

C10_Witness ==
    /\ lpc = "shown"
    /\ Len(stat_vec) = 8
    /\ FracLt(shown[6].pct, shown[7].pct)
    /\ FracLt(shown[6].pct, shown[1].pct)

C10_WitnessSmall == lpc = "shown" /\ Len(stat_vec) = 6 /\ Len(shown) = 6

(***************************************************************************)
(* Malformed lines (PendSpec).                                             *)
(***************************************************************************)
\* the lines of the status output that carry a status code, counted by class
CountOfCoded(codes) ==
    Cardinality({k \in 1..Len(StatusLines) :
        Len(StatusLines[k]) >= 2 /\ SubSeq(StatusLines[k], 1, 2) \in codes})

ExpectedPendingSkipping ==
    LET m == CountOfCoded(ModifiedCodes)
        a == CountOfCoded(AddedCodes)
        d == CountOfCoded(DeletedCodes)
    IN  JoinSpace((IF m > 0 THEN <<Dec(m) \o "+-">> ELSE <<>>)
                  \o (IF a > 0 THEN <<Dec(a) \o "+">> ELSE <<>>)
                  \o (IF d > 0 THEN <<Dec(d) \o "-">> ELSE <<>>))

\* C18: a malformed line of the status output (one shorter than the status
\* code) is skipped: get_pending_changes returns, and its result is the
\* summary of the other lines.
C18_MalformedLinesSkipped ==
    ppc = "ret" =>
        /\ pending_res.kind = "Ok"
        /\ pending_res.v = ExpectedPendingSkipping

(***************************************************************************)
(* get_project_license (LicSpec).                                          *)
(***************************************************************************)
\* a regular file whose name starts with LICENSE, LICENCE or COPYING
IsCandidate(e) ==
    /\ e.is_file
    /\ Len(e.name) >= 7
    /\ SubSeq(e.name, 1, 7) \in {"LICENSE", "LICENCE", "COPYING"}

\* the licenses the classifier finds in the candidate files
CandidateLicenses ==
    {id \in {"MIT", "Apache-2.0"} :
        \E k \in 1..Len(license_dir.entries) :
            /\ IsCandidate(license_dir.entries[k])
            /\ license_dir.entries[k].license = <<id>>}

\* C19: the probe's result is made of the classifications of the regular
\* files named LICENSE*, LICENCE* or COPYING* only, each license once, sorted
\* and joined by ", "; it is "??" when no candidate file is classified.
C19_LicenseScan ==
    (cpc = "ret" /\ license_dir.detector /\ license_dir.readable) =>
        license_res =
            Ok(CASE CandidateLicenses = {} -> "??"
                 [] CandidateLicenses = {"MIT"} -> "MIT"
                 [] CandidateLicenses = {"Apache-2.0"} -> "Apache-2.0"
                 [] OTHER -> "Apache-2.0, MIT")

C19_Witness ==
    /\ cpc = "ret"
    /\ Len(license_dir.entries) = 3
    /\ license_dir.entries[1].name = "LICENSE"
    /\ license_dir.entries[2].name = "NOTICE"
    /\ license_dir.entries[3].name = "COPYING"
    /\ license_res = Ok("MIT")

C19_WitnessTwoLicenses ==
    /\ cpc = "ret"
    /\ Len(license_dir.entries) = 2
    /\ license_dir.entries[1].name = "LICENSE"
    /\ license_dir.entries[2].name = "LICENCE-APACHE"
    /\ license_res = Ok("Apache-2.0, MIT")

C19_WitnessNoneClassified ==
    /\ cpc = "ret"
    /\ Len(license_dir.entries) = 2
    /\ license_dir.entries[1].name = "license"
    /\ license_dir.entries[2].name = "LICENSE.md"
    /\ license_res = Ok("??")

C20_WitnessNoBackend == custom_image /\ rpc = "panic" /\ Len(info_lines) = 1

(***************************************************************************)
(* The fan-out of Info::new (Spec).                                        *)
(***************************************************************************)
Launched == \E p \in ProbeSet : probe[p] # "idle"

C21_WitnessBeforeFanOut ==
    Returned /\ ~Launched /\ ret = Err("SourceCodeNotFound") /\ "tokei" \in Asked

(***************************************************************************)
(* The history and its three reducers (Spec).                              *)
(***************************************************************************)
\* the records of the one answer to `git log`
FetchedRecords ==
    IF world["git_history"] = "" THEN <<>> ELSE Split(world["git_history"], NL)

\* the time label of a record: the text before the first tab
TimeLabel(line) ==
    IF IndexOf(line, TAB) = 0 THEN line ELSE SubSeq(line, 1, IndexOf(line, TAB) - 1)

Reduced == pc = "finish" \/ (Returned /\ Launched)

HistoryConsistent ==
    /\ pc = "join" =>
          /\ locals.creation_date = NoVal
          /\ locals.number_of_commits = ""
          /\ locals.authors = <<>>
    /\ Reduced =>
          LET n == Len(FetchedRecords)
          IN  /\ val["git_history"] = Ok(FetchedRecords)
              /\ locals.number_of_commits = Dec(n)
              /\ \A k \in 1..Len(locals.authors) :
                    /\ locals.authors[k].pct * n <= locals.authors[k].count * 100
                    /\ (locals.authors[k].pct + 1) * n > locals.authors[k].count * 100
              /\ SumCounts(locals.authors) <= n
              /\ locals.creation_date =
                    Ok(IF n = 0 THEN "??" ELSE TimeLabel(FetchedRecords[n]))
    /\ (Returned /\ ret.kind = "Ok") =>
          /\ summary[1].commits = locals.number_of_commits
          /\ summary[1].authors = locals.authors
          /\ summary[1].creation_date = locals.creation_date.v

FetchedOnce ==
    /\ "git_history" \in Asked =>
          ("git_history" \in DOMAIN world' /\ world'["git_history"] = world["git_history"])
    /\ Done("git_history") =>
          (probe'["git_history"] = "done" /\ val'["git_history"] = val["git_history"])

\* C22: the history is fetched once; after the join the commit count, the
\* author ranking and the creation date are computed from that one answer:
\* the count is its number of records, the same number divides every author
\* percentage, and the creation date is the time label of its last record.
C22_OneHistoryFetch == [](HistoryConsistent) /\ [][FetchedOnce]_vars

C22_Witness ==
    /\ Returned
    /\ ret.kind = "Ok"
    /\ world["git_history"] = "2 days ago\tAnn\n3 weeks ago\t'Bob'"
    /\ world["author_nb"] = 2
    /\ summary[1].commits = "2"
    /\ summary[1].creation_date = "3 weeks ago"
    /\ Len(summary[1].authors) = 2
    /\ summary[1].authors[1].pct = 50

(***************************************************************************)
(* Rankings and the order of the hash map (AuthSpec).                      *)
(***************************************************************************)
\* the list get_authors returns when the map is visited in first-seen order
AuthorsInFirstSeenOrder ==
    LET n == Len(AuthorKeys(history_lines))
    IN  get_authors(history_lines, top_n, [i \in 1..n |-> i]).v

\* C23: the author ranking is the same on every execution on the same history
\* and the same n: the order among authors of equal count, and which of them
\* survive the truncation, do not depend on the order the hash map is visited in.
C23_RankingIndependentOfMapOrder ==
    AuthorsReturned => authors_res = AuthorsInFirstSeenOrder

(***************************************************************************)
(* The info block and the suppression flags (InfoSpec).                    *)
(***************************************************************************)
\* block b of the summary writes something
Emits(self, b) ==
    /\ b \in InfoFields => ~self.disable_fields[b]
    /\ b = "pending" => self.pending # ""
    /\ b = "languages" => self.languages # <<>>
    /\ b = "authors" => self.authors # <<>>
    /\ b = "color_blocks" => ~self.no_color_blocks

\* the summary with no field suppressed
Unsuppressed(self) == [self EXCEPT !.disable_fields = [x \in InfoFields |-> FALSE]]

\* the lines of block b when no field at all is suppressed
LinesOf(self, b) == fmt_block(Unsuppressed(self), b)

\* the lines of the first k blocks: those of the blocks that write, in order
RECURSIVE ExpectedBuf(_, _)
ExpectedBuf(self, k) ==
    IF k = 0 THEN ""
    ELSE ExpectedBuf(self, k - 1)
            \o (IF Emits(self, InfoBlocks[k]) THEN LinesOf(self, InfoBlocks[k]) ELSE "")

InfoBlockDone == bpc = Len(InfoBlocks) + 1

InfoBlockConsistent ==
    bpc >= 1 =>
        /\ buf = ExpectedBuf(info, bpc - 1)
        /\ \A k \in 1..Len(InfoBlocks) :
              Emits(info, InfoBlocks[k]) =>
                  LET lines == LinesOf(info, InfoBlocks[k])
                  IN  Len(lines) > 0 /\ CharAt(lines, Len(lines)) = NL

InfoBlockStep ==
    /\ info' = info
    /\ bpc \in 1..Len(InfoBlocks) =>
          /\ (buf' # buf) <=> Emits(info, InfoBlocks[bpc])
          /\ Len(buf') >= Len(buf)
          /\ SubSeq(buf', 1, Len(buf)) = buf

\* C24: a block writes its lines iff its flag is off and, for Pending, the
\* pending text is not empty (for Languages and Authors, the list is not
\* empty); a suppressed field writes nothing; the lines of a field are the same
\* text, in the same order among the others, whatever other fields are
\* suppressed; fmt leaves the summary as it was.
C24_SuppressionFrame == [](InfoBlockConsistent) /\ [][InfoBlockStep]_vars

C24_Witness ==
    /\ InfoBlockDone
    /\ info.disable_fields["head"]
    /\ ~info.disable_fields["pending"]
    /\ info.pending = ""
    /\ Len(info.authors) = 2
    /\ ~info.disable_fields["authors"]
    /\ FindSub(buf, "HEAD: ") = 0
    /\ FindSub(buf, "Pending: ") = 0
    /\ FindSub(buf, "Project: ") > 0
    /\ FindSub(buf, "Project: ") < FindSub(buf, "Authors: ")

C24_WitnessPendingShown ==
    /\ InfoBlockDone
    /\ info.pending # ""
    /\ ~info.disable_fields["pending"]
    /\ info.disable_fields["version"]
    /\ FindSub(buf, "Pending: ") > 0
    /\ FindSub(buf, "Version: ") = 0

====
